---- MODULE Spec2Model ----
(***************************************************************************)
(* State-machine model of the Janus RabbitMQ event handler                 *)
(* (src/src/events/janus_rabbitmqevh.c): the plugin thread running         *)
(* init()/destroy(), the handler thread jns_rmqevh_hdlr, the heartbeat     *)
(* thread jns_rmqevh_hrtbt, producer threads calling incoming_event() and  *)
(* the Admin API thread calling handle_request().  One action is one       *)
(* step between two accesses to shared state.                              *)
(***************************************************************************)
EXTENDS Integers, Sequences, FiniteSets, TLC

(* ------------------------------ bounds -------------------------------- *)
\* events pushed by producer 1 (producer 2 pushes one event)
MaxPush == 2
\* hard errors the broker link produces on the heartbeat poll
MaxHard == 1
\* hard errors on the heartbeat poll where reconnects are studied (SpecRunning)
MaxReconnects == 2
\* tweak requests the Admin API receives
MaxTweaks == 1
\* scaled stand-in for the literal 100 of line 565 (int max = group_events ? 100 : 1)
GroupMax == 2

Producers == {1, 2}
PushLimit(p) == IF p = 1 THEN MaxPush ELSE 1

(* ------------------------------ values -------------------------------- *)
\* json_t exit_event (line 95): the sentinel, told apart by identity
exit_event == [p |-> 0, n |-> 0, g |-> FALSE]
\* the NULL json_t pointer
NULL == [p |-> 0, n |-> -1, g |-> FALSE]
\* an event pushed by producer p as its n-th; g remembers the value of
\* group_events when it was queued
Event(p, n, g) == [p |-> p, n |-> n, g |-> g]
\* the identity of an event, and the events the producers can push
EventId(e) == <<e.p, e.n>>
EventIds == {<<p, n>> : p \in Producers, n \in 1..MaxPush}

AMQP_STATUS_OK == "OK"
AMQP_STATUS_TIMEOUT == "TIMEOUT"
AMQP_STATUS_SSL_ERROR == "SSL_ERROR"
\* any other status the library returns (socket error, connection closed, ...)
AMQP_STATUS_HARD == "HARD"
PollResults == {AMQP_STATUS_OK, AMQP_STATUS_TIMEOUT, AMQP_STATUS_SSL_ERROR, AMQP_STATUS_HARD}

\* the configurations init() can read: TLS or plain socket, optional CA
\* certificate, optional client certificate and key, optional exchange,
\* declare_outgoing_queue, heartbeat > 0, initial grouping
Configs ==
  [ssl_enable : BOOLEAN, ssl_cacert_file : BOOLEAN, ssl_cert_key : BOOLEAN,
   exchange : BOOLEAN, declare_outgoing_queue : BOOLEAN,
   heartbeat : BOOLEAN, grouping : BOOLEAN]

\* the configurations the whole system is explored under: the defaults of
\* lines 119 and 125 (plain socket, queue declared) with an exchange named,
\* the heartbeat thread present or not, grouping initially on or off
MainConfigs ==
  {c \in Configs : /\ ~c.ssl_enable /\ ~c.ssl_cacert_file /\ ~c.ssl_cert_key
                   /\ c.exchange /\ c.declare_outgoing_queue}

VARIABLES
  cfg,            \* the configuration read by init()
  initialized, stopping,   \* static volatile gint (line 85)
  group_events,   \* static gboolean (line 94)
  events,         \* contents of the GAsyncQueue
  events_ref,     \* "null" | "live" | "freed": the queue object behind `events`
  rmq_conn,       \* index into conns of the connection rmq_conn points to, 0 = NULL
  rmq_channel, rmq_exchange,
  conns,          \* every amqp_connection_state_t ever allocated
  mutex,          \* "free" or the thread holding the janus_mutex
  mpc,            \* plugin thread: position in init()/destroy()
  hpc,            \* handler thread: position in jns_rmqevh_hdlr
  bpc,            \* heartbeat thread: position in jns_rmqevh_hrtbt
  cpc,            \* next step of the running janus_rabbitmqevh_connect, or "idle"
  max, output, bare, count, grp,   \* locals of jns_rmqevh_hdlr; grp is the
                  \* value of group_events read at line 583, bare tells
                  \* output = event (line 585) from an array
  taken,          \* history: the events dequeued for the batch under collection
  avail,          \* history: ordinary events queued ahead of any sentinel when
                  \* the blocking pop started that batch, 0 outside a batch
  ppc, pushed,    \* producers: position in incoming_event, events pushed so far
  tweaks,         \* tweak requests handled so far
  hard,           \* hard poll errors seen so far
  crashed,        \* the process died on a use of a destroyed connection
  attempted,      \* history: steps of the connect call that is running or has
                  \* just returned, with outcome; <<>> once the caller resumed
  connret,        \* history: <<r>> when that call has just returned r, else <<>>
  serialized,     \* history: events in the order json_dumps serialized them
  published,      \* history: the amqp_basic_publish calls made
  pubstatus,      \* history: the status of the publish call that has just
                  \* returned, "none" once the handler is past line 567 again
  refs            \* per event, the references the plugin holds on it: taken by
                  \* json_incref (line 508), given up by json_decref

vars == <<cfg, initialized, stopping, group_events, events, events_ref, rmq_conn,
          rmq_channel, rmq_exchange, conns, mutex, mpc, hpc, bpc, cpc,
          max, output, bare, count, grp, taken, avail, ppc, pushed, tweaks, hard,
          crashed, attempted, connret, serialized, published, pubstatus, refs>>

cfgvars  == <<cfg>>
flagvars == <<initialized, stopping>>
connvars == <<rmq_conn, rmq_channel, rmq_exchange, conns, cpc, attempted, connret>>
hdlrvars == <<hpc, max, output, bare, count, grp, taken, avail>>
hrtbtvars == <<bpc, hard>>
prodvars == <<ppc, pushed, tweaks>>
histvars == <<serialized, published, pubstatus, refs>>

InitWith(c) ==
  /\ cfg = c
  /\ initialized = 0 /\ stopping = 0
  \* line 94 default, overwritten by the "grouping" item at lines 199-201
  /\ group_events = cfg.grouping
  /\ events = <<>> /\ events_ref = "null"
  /\ rmq_conn = 0 /\ rmq_channel = 0 /\ rmq_exchange = "unset"
  /\ conns = <<>>
  /\ mutex = "free"
  /\ mpc = "init" /\ hpc = "none" /\ bpc = "none" /\ cpc = "idle"
  /\ max = 0 /\ output = <<>> /\ bare = FALSE /\ count = 0
  /\ grp = cfg.grouping
  /\ taken = <<>> /\ avail = 0
  /\ ppc = [p \in Producers |-> "idle"] /\ pushed = [p \in Producers |-> 0]
  /\ tweaks = 0 /\ hard = 0
  /\ crashed = FALSE
  /\ attempted = <<>> /\ connret = <<>>
  /\ serialized = <<>> /\ published = <<>> /\ pubstatus = "none"
  /\ refs = [id \in EventIds |-> 0]

Init == \E c \in MainConfigs : InitWith(c)

(* --------------------- janus_rabbitmqevh_connect ---------------------- *)
\* the steps of connect() in source order
StepOrder == <<"socket", "cacert", "key", "open", "login", "channel", "exchange", "queue">>

\* which steps the configuration makes connect() attempt
Applicable(s) ==
  CASE s = "cacert"   -> cfg.ssl_enable /\ cfg.ssl_cacert_file
    [] s = "key"      -> cfg.ssl_enable /\ cfg.ssl_cert_key
    [] s = "exchange" -> cfg.exchange
    [] s = "queue"    -> cfg.declare_outgoing_queue
    [] OTHER          -> TRUE

StepIndex(s) == CHOOSE i \in 1..Len(StepOrder) : StepOrder[i] = s

\* the step connect() attempts after step s, "done" when none is left
NextStep(s) ==
  LET later == {i \in (StepIndex(s) + 1)..Len(StepOrder) : Applicable(StepOrder[i])}
  IN  IF later = {} THEN "done"
      ELSE StepOrder[CHOOSE i \in later : \A j \in later : i <= j]

\* does connect() return -1 after step s ended with outcome ok?  Every step
\* tests its own result, except amqp_ssl_socket_set_key (line 369), whose
\* return value is dropped: line 370 tests the status left by the step before,
\* which is AMQP_STATUS_OK whenever line 369 is reached.
StepFails(s, ok) == IF s = "key" THEN FALSE ELSE ~ok

\* the handle in use is handed out again instead of a new one
amqp_reuse_connection(cs) == IF cs = <<>> THEN 1 ELSE Len(cs)

\* line 347: amqp_new_connection() returns a connection object that did not
\* exist before, the next entry of cs
amqp_new_connection(cs) == Len(cs) + 1

\* call of connect() by thread t ("init" from line 296, "hrtbt" from line 665),
\* up to line 347: rmq_conn = amqp_new_connection()
ConnectEnter(t) ==
  /\ ~crashed
  /\ cpc = "idle"
  /\ \/ t = "init" /\ mpc = "init" /\ mpc' = "connect" /\ UNCHANGED bpc
     \/ t = "hrtbt" /\ bpc = "reconnect" /\ bpc' = "connect" /\ UNCHANGED mpc
  /\ conns' = Append(conns, [st |-> "building", destroyed |-> FALSE, allok |-> TRUE])
  /\ rmq_conn' = amqp_new_connection(conns)
  /\ cpc' = "socket"
  /\ attempted' = <<>>
  /\ connret' = <<>>
  /\ UNCHANGED <<cfg, flagvars, group_events, events, events_ref, rmq_channel,
                 rmq_exchange, mutex, hdlrvars, hard, prodvars,
                 crashed, histvars>>

\* the heartbeat thread sleeps half an interval whatever connect() returned
SleepAlwaysHalf(r) == "sleep_half"

\* lines 666-670: if(result < 0) g_usleep(5000000) else g_usleep(waiting_usec)
SleepAfterConnect(r) == IF r < 0 THEN "sleep_backoff" ELSE "sleep_half"

\* where the caller continues when connect() returns r
ConnectReturn(t, r) ==
  /\ cpc' = "idle"
  /\ connret' = <<r>>
  /\ conns' = [conns EXCEPT ![rmq_conn].st = IF r = 0 THEN "established" ELSE "failed",
                            ![rmq_conn].allok = @ /\ attempted'[Len(attempted')].ok]
  /\ \/ /\ t = "init"
        \* lines 296-299: if(result < 0) goto error
        /\ mpc' = IF r < 0 THEN "init_failed" ELSE "init_queue"
        /\ UNCHANGED bpc
     \/ /\ t = "hrtbt"
        \* lines 666-670: g_usleep(5000000) or g_usleep(waiting_usec)
        /\ bpc' = SleepAfterConnect(r)
        /\ UNCHANGED mpc

\* one step of connect() (lines 351-428) run by thread t, with the outcome
\* ok the library call reports
ConnectStep(t, ok) ==
  /\ ~crashed
  /\ cpc \notin {"idle"}
  /\ \/ t = "init" /\ mpc = "connect"
     \/ t = "hrtbt" /\ bpc = "connect"
  /\ attempted' = Append(attempted, [step |-> cpc, ok |-> ok])
  \* line 396 precedes amqp_channel_open
  /\ rmq_channel' = IF cpc = "channel" THEN 1 ELSE rmq_channel
  \* line 404 follows a successful channel open, line 407 precedes the declare
  /\ rmq_exchange' = IF cpc = "channel" /\ ok THEN "empty"
                     ELSE IF cpc = "exchange" THEN "name" ELSE rmq_exchange
  /\ UNCHANGED rmq_conn
  /\ IF StepFails(cpc, ok) THEN ConnectReturn(t, -1)
     ELSE IF NextStep(cpc) = "done" THEN ConnectReturn(t, 0)
     ELSE /\ cpc' = NextStep(cpc)
          /\ conns' = [conns EXCEPT ![rmq_conn].allok = @ /\ ok]
          /\ UNCHANGED <<connret, mpc, bpc>>
  /\ UNCHANGED <<cfg, flagvars, group_events, events, events_ref, mutex,
                 hdlrvars, hard, prodvars, crashed, histvars>>

connect == \E t \in {"init", "hrtbt"} :
              \/ ConnectEnter(t)
              \/ \E ok \in BOOLEAN : ConnectStep(t, ok)

(* ----------------------- janus_rabbitmqevh_init ----------------------- *)
\* lines 301-303: the queue is created and initialized is set
init_queue ==
  /\ ~crashed
  /\ mpc = "init_queue"
  /\ events' = <<>> /\ events_ref' = "live"
  /\ initialized' = 1
  /\ mpc' = "init_hdlr"
  /\ attempted' = <<>> /\ connret' = <<>>
  /\ UNCHANGED <<cfg, stopping, group_events, rmq_conn, rmq_channel, rmq_exchange,
                 conns, cpc, mutex, hdlrvars, hrtbtvars,
                 prodvars, crashed, histvars>>

\* lines 305-313: g_thread_try_new for the handler thread, which can fail
init_hdlr ==
  /\ ~crashed
  /\ mpc = "init_hdlr"
  /\ \/ /\ hpc' = "start"
        /\ mpc' = IF cfg.heartbeat THEN "init_hrtbt" ELSE "running"
        /\ UNCHANGED initialized
     \/ /\ initialized' = 0
        /\ mpc' = "init_failed"
        /\ UNCHANGED hpc
  /\ UNCHANGED <<cfg, stopping, group_events, events, events_ref, connvars, mutex,
                 max, output, bare, count, grp, taken, avail, hrtbtvars, prodvars,
                 crashed, histvars>>

\* lines 314-323: g_thread_try_new for the heartbeat thread (heartbeat > 0)
init_hrtbt ==
  /\ ~crashed
  /\ mpc = "init_hrtbt"
  /\ \/ /\ bpc' = "while"
        /\ mpc' = "running"
        /\ UNCHANGED initialized
     \/ /\ initialized' = 0
        /\ mpc' = "init_failed"
        /\ UNCHANGED bpc
  /\ UNCHANGED <<cfg, stopping, group_events, events, events_ref, connvars, mutex,
                 hdlrvars, hard, prodvars, crashed, histvars>>

(* ---------------------- janus_rabbitmqevh_destroy --------------------- *)
\* lines 432-434: return when not initialized, else raise the stop flag
destroy_enter ==
  /\ ~crashed
  /\ mpc \in {"running", "init_failed"}
  /\ IF initialized = 0
       THEN mpc' = "returned" /\ UNCHANGED stopping
       ELSE mpc' = "destroy_push" /\ stopping' = 1
  /\ UNCHANGED <<cfg, initialized, group_events, events, events_ref, connvars, mutex,
                 hdlrvars, hrtbtvars, prodvars, crashed, histvars>>

\* line 436: g_async_queue_push(events, &exit_event)
destroy_push ==
  /\ ~crashed
  /\ mpc = "destroy_push"
  /\ events' = Append(events, exit_event)
  /\ mpc' = "join_hdlr"
  /\ UNCHANGED <<cfg, flagvars, group_events, events_ref, connvars, mutex,
                 hdlrvars, hrtbtvars, prodvars, crashed, histvars>>

\* lines 437-440: g_thread_join(handler_thread)
destroy_join_hdlr ==
  /\ ~crashed
  /\ mpc = "join_hdlr"
  /\ hpc = "done"
  /\ mpc' = "join_hrtbt"
  /\ UNCHANGED <<cfg, flagvars, group_events, events, events_ref, connvars, mutex,
                 hdlrvars, hrtbtvars, prodvars, crashed, histvars>>

\* lines 441-444: g_thread_join(in_thread) when the heartbeat thread exists
destroy_join_hrtbt ==
  /\ ~crashed
  /\ mpc = "join_hrtbt"
  /\ bpc \in {"none", "done"}
  /\ mpc' = "destroy_unref"
  /\ UNCHANGED <<cfg, flagvars, group_events, events, events_ref, connvars, mutex,
                 hdlrvars, hrtbtvars, prodvars, crashed, histvars>>

\* json_decref on every event that out holds (the array with its elements,
\* lines 607 and 628, or the bare event); the sentinel is no counted object
json_decref(r, out) ==
  [id \in DOMAIN r |->
     r[id] - Cardinality({i \in 1..Len(out) : EventId(out[i]) = id})]

\* lines 446-447: the queue is released (its items go through
\* janus_rabbitmqevh_event_free, lines 96-100) and events = NULL
destroy_unref ==
  /\ ~crashed
  /\ mpc = "destroy_unref"
  /\ events' = <<>> /\ events_ref' = "freed"
  /\ refs' = json_decref(refs, events)
  /\ mpc' = "destroy_conn"
  /\ UNCHANGED <<cfg, flagvars, group_events, connvars, mutex, hdlrvars, hrtbtvars,
                 prodvars, crashed, serialized, published, pubstatus>>

\* lines 449-451: if(rmq_conn) amqp_destroy_connection(rmq_conn); destroying a
\* connection a second time is undefined: the process dies or goes on
destroy_conn ==
  /\ ~crashed
  /\ mpc = "destroy_conn"
  /\ IF rmq_conn # 0
       THEN \/ /\ conns' = [conns EXCEPT ![rmq_conn].destroyed = TRUE]
               /\ mpc' = "destroy_flags"
               /\ UNCHANGED crashed
            \/ /\ conns[rmq_conn].destroyed
               /\ crashed' = TRUE
               /\ UNCHANGED <<conns, mpc>>
       ELSE mpc' = "destroy_flags" /\ UNCHANGED <<conns, crashed>>
  /\ UNCHANGED <<cfg, flagvars, group_events, events, events_ref, rmq_conn,
                 rmq_channel, rmq_exchange, cpc, attempted, connret, mutex,
                 hdlrvars, hrtbtvars, prodvars, histvars>>

\* lines 461-462: both flags are cleared
destroy_flags ==
  /\ ~crashed
  /\ mpc = "destroy_flags"
  /\ initialized' = 0 /\ stopping' = 0
  /\ mpc' = "destroyed"
  /\ UNCHANGED <<cfg, group_events, events, events_ref, connvars, mutex, hdlrvars,
                 hrtbtvars, prodvars, crashed, histvars>>

(* ------------------- janus_rabbitmqevh_incoming_event ----------------- *)
\* line 496: the flags are read; the call returns early when stopping or
\* not initialized
incoming_event_check(p) ==
  /\ ~crashed
  /\ ppc[p] = "idle"
  /\ pushed[p] < PushLimit(p)
  /\ IF stopping = 1 \/ initialized = 0
       THEN UNCHANGED ppc
       ELSE ppc' = [ppc EXCEPT ![p] = "push"]
  /\ UNCHANGED <<cfg, flagvars, group_events, events, events_ref, connvars, mutex,
                 mpc, hdlrvars, hrtbtvars, pushed, tweaks, crashed, histvars>>

\* the push waits until the transport mutex m is free
PushWaitsForMutex(m) == m = "free"

\* lines 508-509 take no lock but the queue's own: the push goes ahead
\* whoever holds the transport mutex m
PushMayProceed(m) == TRUE

\* lines 508-509: json_incref(event); g_async_queue_push(events, event).
\* A push onto a released queue is undefined: the process dies or the push
\* is lost
incoming_event_push(p) ==
  /\ ~crashed
  /\ ppc[p] = "push"
  /\ PushMayProceed(mutex)
  /\ ppc' = [ppc EXCEPT ![p] = "idle"]
  /\ pushed' = [pushed EXCEPT ![p] = @ + 1]
  /\ refs' = [refs EXCEPT ![<<p, pushed[p] + 1>>] = @ + 1]
  /\ IF events_ref = "live"
       THEN /\ events' = Append(events, Event(p, pushed[p] + 1, group_events))
            /\ UNCHANGED crashed
       ELSE /\ crashed' \in BOOLEAN
            /\ UNCHANGED events
  /\ UNCHANGED <<cfg, flagvars, group_events, events_ref, connvars, mutex,
                 mpc, hdlrvars, hrtbtvars, tweaks, serialized, published, pubstatus>>

(* ------------------- janus_rabbitmqevh_handle_request ----------------- *)
\* lines 513-538: a "tweak" request carrying "grouping": g
handle_request(g) ==
  /\ ~crashed
  /\ tweaks < MaxTweaks
  /\ stopping = 0 /\ initialized = 1
  /\ group_events' = g
  /\ tweaks' = tweaks + 1
  /\ UNCHANGED <<cfg, flagvars, events, events_ref, connvars, mutex, mpc,
                 hdlrvars, hrtbtvars, ppc, pushed, crashed, histvars>>

(* --------------------------- jns_rmqevh_hdlr -------------------------- *)
\* the events of q as the histories record them: without the mark g
Untagged(q) == [i \in 1..Len(q) |-> Event(q[i].p, q[i].n, FALSE)]

\* line 565: int max = group_events ? 100 : 1, with 100 scaled to GroupMax
GroupLimit(g) == IF g THEN GroupMax ELSE 1

\* the event is added to whatever output holds instead of replacing it
SingleOutputAppended(out, e) == Append(out, e)

\* line 585: output = event
SingleOutput(out, e) == <<e>>

\* the event is put at the front of the array instead of its end
json_array_prepend_new(out, e) == <<e>> \o out

\* lines 589-591: json_array_append_new(output, event) on the array output
\* holds, a new array when output is NULL
json_array_append_new(out, e) == Append(out, e)

\* the test for the sentinel is left out
TryPopStopsOnNull(e) == e = NULL

\* line 597: the test that ends the collection after g_async_queue_try_pop
TryPopStops(e) == e = NULL \/ e = exit_event

\* a failed publish is retried in place
PublishRetry(status) == IF status = AMQP_STATUS_OK THEN "while" ELSE "publish"

\* lines 618-629: whatever the status, the handler logs, unlocks and goes
\* back to the head of its loop
PublishNext(status) == "while"

hdlr_start ==
  /\ ~crashed
  /\ hpc = "start"
  /\ max' = GroupLimit(group_events)
  /\ hpc' = "while"
  /\ UNCHANGED <<cfg, flagvars, group_events, events, events_ref, connvars, mutex,
                 mpc, output, bare, count, grp, taken, avail, bpc, hard, prodvars,
                 crashed, histvars>>

\* the loop goes on whatever the stop flag says
LoopIgnoresStop(i, st) == i = 1

\* line 567: the condition of while(initialized && !stopping)
LoopGoesOn(i, st) == i = 1 /\ st = 0

\* line 567: while(initialized && !stopping)
hdlr_while ==
  /\ ~crashed
  /\ hpc = "while"
  /\ hpc' = IF LoopGoesOn(initialized, stopping) THEN "pop" ELSE "done"
  /\ pubstatus' = "none"
  /\ UNCHANGED <<cfg, flagvars, group_events, events, events_ref, connvars, mutex,
                 mpc, max, output, bare, count, grp, taken, avail, bpc, hard, prodvars,
                 crashed, serialized, published, refs>>

\* the events of queue q ahead of its first sentinel
LeadingOrdinary(q) ==
  IF \E i \in 1..Len(q) : q[i] = exit_event
    THEN (CHOOSE i \in 1..Len(q) : q[i] = exit_event /\ \A j \in 1..(i - 1) : q[j] # exit_event) - 1
    ELSE Len(q)

\* lines 583-595, for the event e just taken from the queue, the batch out,
\* the counter c and the history tk of the events dequeued for this batch:
\* group_events is read; either e alone becomes the output and the
\* collection ends, or e is appended and the collection goes on until max
\* events are in
HandleEvent(e, out, c, tk) ==
  /\ grp' = group_events
  /\ taken' = Append(tk, e)
  /\ IF ~group_events
       THEN /\ output' = SingleOutput(out, e)
            /\ bare' = TRUE
            /\ count' = c
            /\ hpc' = "dumps"
       ELSE /\ output' = json_array_append_new(out, e)
            /\ bare' = FALSE
            /\ count' = c + 1
            /\ hpc' = IF c + 1 = max THEN "dumps" ELSE "trypop"

\* lines 569-573: the blocking pop; the sentinel ends the thread, any other
\* event starts a batch (count = 0, output = NULL) and is handled
hdlr_pop ==
  /\ ~crashed
  /\ hpc = "pop"
  /\ events_ref = "live" /\ events # <<>>
  /\ events' = Tail(events)
  /\ IF Head(events) = exit_event
       THEN hpc' = "done" /\ UNCHANGED <<count, output, bare, grp, taken, avail>>
       ELSE HandleEvent(Head(events), <<>>, 0, <<>>) /\ avail' = LeadingOrdinary(events)
  /\ UNCHANGED <<cfg, flagvars, group_events, events_ref, connvars, mutex, mpc,
                 max, bpc, hard, prodvars, crashed, histvars>>

\* lines 596-598: g_async_queue_try_pop; NULL or the sentinel ends the
\* collection, any other event is handled
hdlr_trypop ==
  /\ ~crashed
  /\ hpc = "trypop"
  /\ LET e == IF events = <<>> THEN NULL ELSE Head(events)
     IN  /\ events' = IF events = <<>> THEN events ELSE Tail(events)
         /\ IF TryPopStops(e)
              THEN hpc' = "dumps" /\ UNCHANGED <<count, output, bare, grp, taken>>
              ELSE HandleEvent(e, output, count, taken)
         /\ UNCHANGED avail
  /\ UNCHANGED <<cfg, flagvars, group_events, events_ref, connvars, mutex, mpc,
                 max, bpc, hard, prodvars, crashed, histvars>>

\* a failed serialization ends the thread
DumpsFailedLeaves == "done"

\* lines 604-609: after a failed json_dumps the batch is released and
\* `continue` takes the thread to the head of its loop
DumpsFailedNext == "while"

\* lines 601-610 and 627-628: unless stopping, json_dumps(output), which can
\* fail; a failed or skipped batch is released and the loop goes on
hdlr_dumps ==
  /\ ~crashed
  /\ hpc = "dumps"
  /\ IF stopping = 0
       THEN \/ /\ serialized' = serialized \o Untagged(output)
               /\ hpc' = "lock"
               /\ UNCHANGED <<output, taken, avail, refs>>
            \/ /\ output' = <<>> /\ taken' = <<>> /\ avail' = 0
               /\ refs' = json_decref(refs, output)
               /\ hpc' = DumpsFailedNext
               /\ UNCHANGED serialized
       ELSE /\ output' = <<>> /\ taken' = <<>> /\ avail' = 0
            /\ refs' = json_decref(refs, output)
            /\ hpc' = "while"
            /\ UNCHANGED serialized
  /\ UNCHANGED <<cfg, flagvars, group_events, events, events_ref, connvars, mutex,
                 mpc, max, bare, count, grp, bpc, hard, prodvars,
                 crashed, published, pubstatus>>

\* line 616: janus_mutex_lock(&mutex); from here the thread is inside
\* amqp_basic_publish
hdlr_lock ==
  /\ ~crashed
  /\ hpc = "lock"
  /\ mutex = "free"
  /\ mutex' = "hdlr"
  /\ hpc' = "publish"
  /\ UNCHANGED <<cfg, flagvars, group_events, events, events_ref, connvars, mpc,
                 max, output, bare, count, grp, taken, avail, bpc, hard, prodvars,
                 crashed, histvars>>

\* a failed publish opens the next channel
PublishReopensChannel(ch, status) == IF status = AMQP_STATUS_OK THEN ch ELSE ch + 1

\* lines 617-621: rmq_channel is passed to amqp_basic_publish by value and
\* not assigned, whatever the status
PublishLeavesChannel(ch, status) == ch

\* lines 617-628: amqp_basic_publish on rmq_conn returns a status, the mutex
\* is released, the text freed and output released.  On a destroyed
\* connection the call is undefined: the process dies or a status returns
hdlr_publish ==
  /\ ~crashed
  /\ hpc = "publish"
  /\ \/ \E status \in {AMQP_STATUS_OK, AMQP_STATUS_HARD} :
          /\ published' = Append(published, [body |-> Untagged(output), bare |-> bare,
                                            conn |-> rmq_conn])
          /\ pubstatus' = status
          /\ rmq_channel' = PublishLeavesChannel(rmq_channel, status)
          /\ hpc' = PublishNext(status)
          /\ IF PublishNext(status) = "while"
               THEN /\ mutex' = "free" /\ output' = <<>> /\ taken' = <<>> /\ avail' = 0
                    /\ refs' = json_decref(refs, output)
               ELSE UNCHANGED <<mutex, output, taken, avail, refs>>
          /\ UNCHANGED crashed
     \/ /\ conns[rmq_conn].destroyed
        /\ crashed' = TRUE
        /\ UNCHANGED <<published, pubstatus, rmq_channel, hpc, mutex, output, taken,
                       avail, refs>>
  /\ UNCHANGED <<cfg, flagvars, group_events, events, events_ref, rmq_conn,
                 rmq_exchange, conns, cpc, attempted, connret,
                 mpc, max, bare, count, grp, bpc, hard, prodvars,
                 serialized>>

(* --------------------------- jns_rmqevh_hrtbt ------------------------- *)
\* line 644: while(initialized && !stopping)
hrtbt_while ==
  /\ ~crashed
  /\ bpc = "while"
  /\ bpc' = IF initialized = 1 /\ stopping = 0 THEN "lock" ELSE "done"
  /\ UNCHANGED <<cfg, flagvars, group_events, events, events_ref, connvars, mutex,
                 mpc, hdlrvars, hard, prodvars, crashed, histvars>>

\* line 645: janus_mutex_lock(&mutex); from here the thread is inside
\* amqp_maybe_release_buffers / amqp_simple_wait_frame_noblock
hrtbt_lock ==
  /\ ~crashed
  /\ bpc = "lock"
  /\ mutex = "free"
  /\ mutex' = "hrtbt"
  /\ bpc' = "poll"
  /\ UNCHANGED <<cfg, flagvars, group_events, events, events_ref, connvars, mpc,
                 hdlrvars, hard, prodvars, crashed, histvars>>

\* the TLS condition is taken for a hard error
PollIsSoftButTls(r) == r \in {AMQP_STATUS_OK, AMQP_STATUS_TIMEOUT}

\* lines 652 and 672: the results after which the thread only sleeps
PollIsSoft(r) == r \in {AMQP_STATUS_OK, AMQP_STATUS_TIMEOUT, AMQP_STATUS_SSL_ERROR}

\* lines 646-659 and 672-675: the poll on rmq_conn returns res, one of the
\* results the broker link can produce; the mutex is released and the thread
\* branches on res.  On a destroyed connection the poll is undefined: the
\* process dies or a result returns
hrtbt_poll_upto(results, lim) ==
  /\ ~crashed
  /\ bpc = "poll"
  /\ \/ \E r \in results :
          /\ r = AMQP_STATUS_HARD => hard < lim
          /\ hard' = IF r = AMQP_STATUS_HARD THEN hard + 1 ELSE hard
          /\ mutex' = "free"
          /\ bpc' = IF PollIsSoft(r) THEN "sleep_half" ELSE "destroy"
          /\ UNCHANGED crashed
     \/ /\ conns[rmq_conn].destroyed
        /\ crashed' = TRUE
        /\ UNCHANGED <<hard, bpc, mutex>>
  /\ UNCHANGED <<cfg, flagvars, group_events, events, events_ref, connvars,
                 mpc, hdlrvars, prodvars, histvars>>

hrtbt_poll_of(results) == hrtbt_poll_upto(results, MaxHard)

hrtbt_poll == hrtbt_poll_of(PollResults)

\* the poll of a broker link that fails up to MaxReconnects times
hrtbt_poll_flaky == hrtbt_poll_upto(PollResults, MaxReconnects)

\* the poll while the broker link stays up
hrtbt_poll_up == hrtbt_poll_of({r \in PollResults : PollIsSoft(r)})

\* lines 660-663: if(rmq_conn) amqp_destroy_connection(rmq_conn), then the
\* stop flag decides whether connect() is called
hrtbt_destroy ==
  /\ ~crashed
  /\ bpc = "destroy"
  /\ IF rmq_conn # 0
       THEN \/ /\ conns' = [conns EXCEPT ![rmq_conn].destroyed = TRUE]
               /\ bpc' = IF stopping = 0 THEN "reconnect" ELSE "while"
               /\ UNCHANGED crashed
            \/ /\ conns[rmq_conn].destroyed
               /\ crashed' = TRUE
               /\ UNCHANGED <<conns, bpc>>
       ELSE /\ bpc' = IF stopping = 0 THEN "reconnect" ELSE "while"
            /\ UNCHANGED <<conns, crashed>>
  /\ UNCHANGED <<cfg, flagvars, group_events, events, events_ref, rmq_conn,
                 rmq_channel, rmq_exchange, cpc, attempted, connret, mutex, mpc,
                 hdlrvars, hard, prodvars, histvars>>

\* lines 654, 667, 669, 674: g_usleep returns
hrtbt_sleep ==
  /\ ~crashed
  /\ bpc \in {"sleep_half", "sleep_backoff"}
  /\ bpc' = "while"
  /\ attempted' = <<>> /\ connret' = <<>>
  /\ UNCHANGED <<cfg, flagvars, group_events, events, events_ref, rmq_conn,
                 rmq_channel, rmq_exchange, conns, cpc, mutex,
                 mpc, hdlrvars, hard, prodvars, crashed, histvars>>

(* ---------------------------- specification --------------------------- *)
incoming_event == \E p \in Producers : incoming_event_check(p) \/ incoming_event_push(p)

tweak == \E g \in BOOLEAN : handle_request(g)

Next ==
  \/ connect
  \/ init_queue \/ init_hdlr \/ init_hrtbt
  \/ destroy_enter \/ destroy_push \/ destroy_join_hdlr \/ destroy_join_hrtbt
  \/ destroy_unref \/ destroy_conn \/ destroy_flags
  \/ incoming_event
  \/ tweak
  \/ hdlr_start \/ hdlr_while \/ hdlr_pop \/ hdlr_trypop
  \/ hdlr_dumps \/ hdlr_lock \/ hdlr_publish
  \/ hrtbt_while \/ hrtbt_lock \/ hrtbt_poll \/ hrtbt_destroy \/ hrtbt_sleep

Spec == Init /\ [][Next]_vars

\* connect() alone, under every configuration: init()'s call and the
\* heartbeat thread's reconnects, with no event traffic
InitAll == \E c \in Configs : InitWith(c)

NextConnect ==
  \/ connect
  \/ init_queue \/ init_hdlr \/ init_hrtbt
  \/ hrtbt_while \/ hrtbt_lock \/ hrtbt_poll \/ hrtbt_destroy \/ hrtbt_sleep

SpecConnect == InitAll /\ [][NextConnect]_vars

\* the whole system while the broker link stays up: the heartbeat thread
\* polls and sleeps, and never has to reconnect
connect_init == ConnectEnter("init") \/ \E ok \in BOOLEAN : ConnectStep("init", ok)

NextLinkUp ==
  \/ connect_init
  \/ init_queue \/ init_hdlr \/ init_hrtbt
  \/ destroy_enter \/ destroy_push \/ destroy_join_hdlr \/ destroy_join_hrtbt
  \/ destroy_unref \/ destroy_conn \/ destroy_flags
  \/ incoming_event
  \/ tweak
  \/ hdlr_start \/ hdlr_while \/ hdlr_pop \/ hdlr_trypop
  \/ hdlr_dumps \/ hdlr_lock \/ hdlr_publish
  \/ hrtbt_while \/ hrtbt_lock \/ hrtbt_poll_up \/ hrtbt_sleep

SpecLinkUp == Init /\ [][NextLinkUp]_vars

\* the steps of each thread; every thread that can take a step is scheduled
\* in the end, and every library call it is in returns
PluginStep ==
  \/ connect_init
  \/ init_queue \/ init_hdlr \/ init_hrtbt
  \/ destroy_push \/ destroy_join_hdlr \/ destroy_join_hrtbt
  \/ destroy_unref \/ destroy_conn \/ destroy_flags

HandlerStep ==
  \/ hdlr_start \/ hdlr_while \/ hdlr_pop \/ hdlr_trypop
  \/ hdlr_dumps \/ hdlr_lock \/ hdlr_publish

connect_hrtbt == ConnectEnter("hrtbt") \/ \E ok \in BOOLEAN : ConnectStep("hrtbt", ok)

HeartbeatStep ==
  \/ hrtbt_while \/ hrtbt_lock \/ hrtbt_poll \/ hrtbt_destroy \/ hrtbt_sleep
  \/ connect_hrtbt

Fairness == WF_vars(PluginStep) /\ WF_vars(HandlerStep) /\ WF_vars(HeartbeatStep)

\* destroy() called when no incoming_event() call is in flight
destroy_enter_quiet == destroy_enter /\ \A p \in Producers : ppc[p] = "idle"

\* the whole system, shut down by a destroy() that the core calls once its
\* producers are out of incoming_event(), under fair scheduling
NextShutdown ==
  \/ connect
  \/ init_queue \/ init_hdlr \/ init_hrtbt
  \/ destroy_enter_quiet \/ destroy_push \/ destroy_join_hdlr \/ destroy_join_hrtbt
  \/ destroy_unref \/ destroy_conn \/ destroy_flags
  \/ incoming_event
  \/ tweak
  \/ hdlr_start \/ hdlr_while \/ hdlr_pop \/ hdlr_trypop
  \/ hdlr_dumps \/ hdlr_lock \/ hdlr_publish
  \/ hrtbt_while \/ hrtbt_lock \/ hrtbt_poll \/ hrtbt_destroy \/ hrtbt_sleep

SpecShutdown == Init /\ [][NextShutdown]_vars /\ Fairness

\* the system at run time while the broker link stays up, under fair
\* scheduling; the handler thread gets the mutex in the end, since the
\* heartbeat thread sleeps between two polls
NextSteady ==
  \/ connect_init
  \/ init_queue \/ init_hdlr \/ init_hrtbt
  \/ incoming_event
  \/ hdlr_start \/ hdlr_while \/ hdlr_pop \/ hdlr_trypop
  \/ hdlr_dumps \/ hdlr_lock \/ hdlr_publish
  \/ hrtbt_while \/ hrtbt_lock \/ hrtbt_poll_up \/ hrtbt_sleep

HeartbeatStepUp == hrtbt_while \/ hrtbt_lock \/ hrtbt_poll_up \/ hrtbt_sleep

SpecSteady ==
  /\ Init /\ [][NextSteady]_vars
  /\ WF_vars(PluginStep) /\ WF_vars(HandlerStep) /\ SF_vars(hdlr_lock)
  /\ WF_vars(HeartbeatStepUp)

\* the system at run time, between init() and destroy(): producers, the
\* handler thread and the heartbeat thread with its reconnects; no request
\* changes the grouping and no stop is requested
NextRunning ==
  \/ connect
  \/ init_queue \/ init_hdlr \/ init_hrtbt
  \/ incoming_event
  \/ hdlr_start \/ hdlr_while \/ hdlr_pop \/ hdlr_trypop
  \/ hdlr_dumps \/ hdlr_lock \/ hdlr_publish
  \/ hrtbt_while \/ hrtbt_lock \/ hrtbt_poll_flaky \/ hrtbt_destroy \/ hrtbt_sleep

SpecRunning == Init /\ [][NextRunning]_vars

(* ------------------------------ properties ---------------------------- *)
Range(q) == {q[i] : i \in 1..Len(q)}

\* positions of the threads inside the transport calls
InPublish   == hpc = "publish"
InPoll      == bpc = "poll"
InTeardown  == bpc = "destroy"
InReconnect == bpc = "connect"

\* C1: the handler thread is never inside amqp_basic_publish while the
\* heartbeat thread is inside a poll, inside amqp_destroy_connection or
\* inside janus_rabbitmqevh_connect
C1_PublishExcludesHandshake ==
  ~(InPublish /\ (InPoll \/ InTeardown \/ InReconnect))

\* a handle every connect step of which succeeded and which was not destroyed
HandleValid(i) ==
  /\ i \in 1..Len(conns)
  /\ conns[i].st = "established" /\ conns[i].allok
  /\ ~conns[i].destroyed

\* C2: at most one handle is valid, and every publish and every poll runs on
\* a valid handle: fully established and not torn down
C2_UsesValidHandle ==
  /\ Cardinality({i \in 1..Len(conns) : HandleValid(i)}) <= 1
  /\ InPublish => HandleValid(rmq_conn)
  /\ InPoll => HandleValid(rmq_conn)

\* C3: once the system is initialized, a step changes the visible handle
\* (rmq_conn, rmq_channel, rmq_exchange) only if it is the return of a
\* successful connect() and is taken with the mutex held
C3_ReplacedOnlyOnSuccess ==
  [][(initialized = 1 /\ <<rmq_conn, rmq_channel, rmq_exchange>>' #
                         <<rmq_conn, rmq_channel, rmq_exchange>>)
       => (connret' = <<0>> /\ mutex = "hrtbt")]_vars

\* C4: the events of one producer are serialized in the order it pushed them
C4_FifoPerProducer ==
  \A i, j \in 1..Len(serialized) :
    (i < j /\ serialized[i].p = serialized[j].p) => serialized[i].n < serialized[j].n

\* both events of producer 1 and the event of producer 2 were serialized, in
\* more than one batch, after the grouping flag was changed by a request
C4_Witness ==
  /\ Len(serialized) = 3 /\ Len(published) >= 2
  /\ \E i, j \in 1..3 : i < j /\ serialized[i].p = 1 /\ serialized[j].p = 1
  /\ tweaks = 1

\* C5: no event is in the body of two publish calls
C5_AtMostOnce ==
  \A k, l \in 1..Len(published) :
    k < l => Range(published[k].body) \cap Range(published[l].body) = {}

\* a publish has just returned an error for the second batch: the batch is
\* dropped and the handler is back at the head of its loop
C5_Witness ==
  /\ pubstatus = AMQP_STATUS_HARD /\ Len(published) >= 2
  /\ hpc = "while" /\ output = <<>> /\ mutex = "free"

\* C6: the sentinel is in no batch, is never serialized and never published
C6_SentinelExclusive ==
  /\ exit_event \notin Range(output)
  /\ exit_event \notin Range(serialized)
  /\ \A k \in 1..Len(published) : exit_event \notin Range(published[k].body)

\* the sentinel was pushed and try_pop took it from the queue while an
\* array batch was being collected
C6_Witness ==
  /\ mpc = "join_hdlr" /\ exit_event \notin Range(events)
  /\ hpc = "dumps" /\ ~bare /\ Len(output) >= 1

\* C7: a batch collected with grouping enabled, started when at least
\* GroupMax events were queued, holds exactly GroupMax events; no batch holds
\* more
C7_GroupingCap ==
  /\ (hpc = "dumps" /\ ~bare /\ avail >= GroupMax) => Len(output) = GroupMax
  /\ Len(output) <= GroupMax
  /\ \A k \in 1..Len(published) : Len(published[k].body) <= GroupMax

\* C8: when the grouping flag was off as the handler read it for the output
\* it built, that output is one bare event
C8_UngroupedIsSingle ==
  /\ (hpc \in {"dumps", "lock", "publish"} /\ ~grp) => (bare /\ Len(output) = 1)
  /\ \A k \in 1..Len(published) : published[k].bare => Len(published[k].body) = 1

\* the flag was switched off while an array batch was under collection, and
\* the output built is about to be serialized
C8_Witness ==
  /\ hpc = "dumps" /\ ~grp /\ stopping = 0
  /\ Len(taken) >= 2

\* C9: every event is batched under the value the grouping flag had when it
\* was queued, and the events dequeued for a batch are the batch
C9_TweakSparesQueued ==
  hpc = "dumps" =>
    /\ \A e \in Range(taken) : e.g = ~bare
    /\ output = taken

\* the steps the configuration makes connect() go through, in order
ApplicableSteps == SelectSeq(StepOrder, Applicable)

\* C10: connect() attempts the applicable steps in the fixed order, attempts
\* no step after a failed one, and returns 0 exactly when every applicable
\* step was attempted and succeeded
C10_ConnectFailFast ==
  /\ Len(attempted) <= Len(ApplicableSteps)
  /\ \A i \in 1..Len(attempted) : attempted[i].step = ApplicableSteps[i]
  /\ \A i \in 1..(Len(attempted) - 1) : attempted[i].ok
  /\ connret = <<0>> =>
       /\ Len(attempted) = Len(ApplicableSteps)
       /\ \A i \in 1..Len(attempted) : attempted[i].ok
  /\ connret = <<-1>> => ~attempted[Len(attempted)].ok

\* the heartbeat thread's latest connect() succeeded and no hard poll error
\* has come since: it has just returned 0, or the newest connection is the
\* established one and the thread is polling and sleeping
Recovered ==
  /\ Len(conns) >= 2 /\ stopping = 0
  /\ \/ bpc = "sleep_half" /\ connret = <<0>>
     \/ /\ bpc \in {"sleep_half", "while", "lock", "poll"}
        /\ conns[Len(conns)].st = "established" /\ ~conns[Len(conns)].destroyed

\* C11: after hard poll errors and a connect() that succeeded, the current
\* handle is a new, established instance, every handle before it is torn
\* down, and every publish made from then on is made on the new handle
C11_ReconnectFresh ==
  /\ [](Recovered =>
          /\ rmq_conn = Len(conns)
          /\ conns[rmq_conn].st = "established" /\ ~conns[rmq_conn].destroyed
          /\ \A i \in 1..(Len(conns) - 1) : conns[i].destroyed)
  /\ [][(Recovered /\ published' # published) =>
          published'[Len(published')].conn = Len(conns)]_vars

\* two hard poll errors and a failed connect() lie behind, the second
\* connect() succeeded, and an event pushed after it was published on the
\* third handle
C11_Witness ==
  /\ Recovered /\ Len(conns) = 3 /\ bpc = "poll"
  /\ Len(published) >= 1 /\ published[Len(published)].conn = 3

\* teardowns made and connect() calls made by the heartbeat thread
Teardowns == Cardinality({i \in 1..Len(conns) : conns[i].destroyed})
Reconnects == Len(conns) - 1

\* C12: with no stop requested, every hard poll error is followed by exactly
\* one teardown and then exactly one connect(); a connect() that failed is
\* followed by the 5-second backoff, one that succeeded by the half-interval
\* sleep, and after either sleep the loop is entered again
C12_OneCyclePerHardError ==
  /\ [](bpc # "none" =>
          /\ Teardowns = IF bpc = "destroy" THEN hard - 1 ELSE hard
          /\ Reconnects = IF bpc \in {"destroy", "reconnect"} THEN hard - 1 ELSE hard)
  /\ [][/\ bpc = "destroy" => bpc' \in {"destroy", "reconnect"}
        /\ bpc = "reconnect" => bpc' \in {"reconnect", "connect"}
        /\ (bpc = "connect" /\ bpc' # "connect") =>
              \/ connret' = <<-1>> /\ bpc' = "sleep_backoff"
              \/ connret' = <<0>> /\ bpc' = "sleep_half"
        /\ bpc' = "sleep_backoff" => bpc \in {"connect", "sleep_backoff"}
        /\ bpc \in {"sleep_backoff", "sleep_half"} => bpc' \in {bpc, "while"}]_vars

\* the poll returned a hard error twice: the first connect() failed and was
\* followed by the backoff, the second succeeded, and the thread is back to
\* polling and half-interval sleeps
C12_Witness ==
  /\ hard = 2 /\ Len(conns) = 3
  /\ conns[2].st = "failed" /\ conns[3].st = "established"
  /\ bpc = "sleep_half" /\ connret = <<>>

C14_StartupFatal ==
  mpc \in {"init_failed", "returned"} =>
    /\ hpc \in {"none", "start", "while", "done"}
    /\ bpc \in {"none", "done"}
    /\ events = <<>> /\ serialized = <<>> /\ published = <<>>

\* the n-th event of producer p, whatever its mark
IsEvent(e, p, n) == e.p = p /\ e.n = n

\* C15: whatever json_dumps and amqp_basic_publish return, the handler
\* releases the batch and goes back to the head of its loop; it leaves the
\* loop only when the flags say so; every queued event is dequeued into a
\* batch that reaches json_dumps, and every serialized batch reaches
\* amqp_basic_publish
C15_DropKeepsConsuming ==
  /\ [][/\ (hpc = "publish" /\ hpc' # "publish") => (hpc' = "while" /\ output' = <<>>)
        /\ (hpc = "dumps" /\ hpc' \notin {"dumps", "lock"}) =>
              (hpc' = "while" /\ output' = <<>>)]_vars
  /\ [](hpc = "done" => initialized = 0)
  /\ \A p \in Producers : \A n \in 1..MaxPush :
       (\E i \in 1..Len(events) : IsEvent(events[i], p, n))
         ~> \/ hpc = "dumps" /\ \E i \in 1..Len(output) : IsEvent(output[i], p, n)
            \/ initialized = 0
  /\ (hpc = "lock") ~> (hpc = "publish")

\* a publish has just returned an error: the batch is dropped, the handler is
\* at the head of its loop with the flags letting it go on, and the second
\* event of producer 1 waits in the queue
C15_Witness ==
  /\ pubstatus = AMQP_STATUS_HARD /\ Len(published) = 1
  /\ hpc = "while" /\ output = <<>> /\ initialized = 1 /\ stopping = 0
  /\ \E i \in 1..Len(events) : IsEvent(events[i], 1, 2)

\* C16: as long as the process lives, a producer inside incoming_event() can
\* take its next step in every state, and no step of a producer touches the
\* transport mutex
C16_ProducersNeverBlocked ==
  /\ [](~crashed => \A p \in Producers :
          /\ ppc[p] = "push" => ENABLED incoming_event_push(p)
          /\ (ppc[p] = "idle" /\ pushed[p] < PushLimit(p)) => ENABLED incoming_event_check(p))
  /\ [][(ppc' # ppc \/ pushed' # pushed) => mutex' = mutex]_vars
  /\ [](mutex \in {"free", "hdlr", "hrtbt"})

\* a producer is about to enqueue while the handler thread holds the mutex
\* inside amqp_basic_publish and the heartbeat thread is inside connect()
C16_Witness ==
  /\ ppc[1] = "push" /\ hpc = "publish" /\ mutex = "hdlr" /\ bpc = "connect"

\* the transport handle and the connect() in progress
Handle == <<rmq_conn, rmq_channel, rmq_exchange, conns, cpc>>

\* C17: once the system is initialized, a step changes the handle or starts
\* or advances a connect() only if the heartbeat thread takes it, after a
\* hard poll error; the step in which amqp_basic_publish returns leaves all
\* of it unchanged
C17_OnlyHeartbeatReconnects ==
  [][/\ (initialized = 1 /\ Handle' # Handle) =>
          /\ bpc \in {"destroy", "reconnect", "connect"}
          /\ hard >= 1
          /\ hpc' = hpc /\ published' = published
     /\ published' # published => Handle' = Handle]_vars

\* a publish has returned an error on the handle init() established; no poll
\* has failed, and that handle is still the one in place
C17_Witness ==
  /\ pubstatus = AMQP_STATUS_HARD /\ Len(published) >= 1
  /\ bpc # "none" /\ hard = 0
  /\ rmq_conn = 1 /\ Len(conns) = 1 /\ ~conns[1].destroyed /\ cpc = "idle"

\* C18: a poll that returns anything but a hard error (success, timeout, the
\* TLS condition) takes the heartbeat thread to the half-interval sleep with
\* the handle unchanged, and from there to the loop head, the lock and the
\* next poll; the teardown is entered only from a poll that returned a hard
\* error
C18_SoftPollOnlySleeps ==
  [][/\ (bpc = "poll" /\ bpc' # "poll") =>
          IF hard' = hard THEN bpc' = "sleep_half" /\ Handle' = Handle
                          ELSE bpc' = "destroy" /\ hard' = hard + 1
     /\ (bpc' = "destroy" /\ bpc # "destroy") => (bpc = "poll" /\ hard' = hard + 1)
     /\ (bpc = "sleep_half" /\ bpc' # bpc) => (bpc' = "while" /\ Handle' = Handle)
     /\ (bpc = "while" /\ bpc' # bpc) =>
          (bpc' = IF initialized = 1 /\ stopping = 0 THEN "lock" ELSE "done")
     /\ (bpc = "lock" /\ bpc' # bpc) => (bpc' = "poll" /\ Handle' = Handle)]_vars

\* the poll returned a soft result on the handle init() established; the
\* thread is in its half-interval sleep and the handle is in place
C18_Witness ==
  /\ bpc = "sleep_half" /\ hard = 0 /\ connret = <<>> /\ mutex = "free"
  /\ rmq_conn = 1 /\ Len(conns) = 1 /\ ~conns[1].destroyed

\* C19: when an iteration of the handler's loop ends, whatever its outcome,
\* the plugin holds no reference on any event dequeued in it, and no event
\* is ever released more often than it was referenced
C19_ReleasedExactlyOnce ==
  /\ [][(hpc \in {"dumps", "publish"} /\ hpc' = "while") =>
          \A i \in 1..Len(taken) : refs'[EventId(taken[i])] = 0]_vars
  /\ [](\A id \in EventIds : refs[id] >= 0)

\* the sentinel was pushed and is no longer queued although the handler
\* thread has not ended: g_async_queue_try_pop returned it
SentinelTakenByTryPop ==
  mpc = "join_hdlr" /\ exit_event \notin Range(events) /\ hpc # "done"

\* C20 as stated: try_pop returning the sentinel ends the collection without
\* appending it and without ending the thread, and from then on the thread
\* ends only in a step in which the blocking pop returns the sentinel
C20_EndsOnlyOnBlockingPop ==
  [][/\ (hpc = "trypop" /\ events # <<>> /\ Head(events) = exit_event /\ hpc' # hpc)
          => (hpc' = "dumps" /\ output' = output)
     /\ (SentinelTakenByTryPop /\ hpc' = "done")
          => (hpc = "pop" /\ events # <<>> /\ Head(events) = exit_event)]_vars

\* C20, amended: try_pop returning the sentinel ends the collection without
\* appending it and without ending the thread; the stop flag is then already
\* set, so the batch is released unpublished and the thread ends at the loop
\* condition of line 567, with no further blocking pop.  The thread ends
\* only when the blocking pop returns the sentinel or the loop condition
\* fails
C20_EndsOnPopOrFlag ==
  /\ [][/\ (hpc = "trypop" /\ events # <<>> /\ Head(events) = exit_event /\ hpc' # hpc)
            => (hpc' = "dumps" /\ output' = output /\ stopping = 1)
        /\ (hpc' = "done" /\ hpc # "done")
            => \/ hpc = "pop" /\ events # <<>> /\ Head(events) = exit_event
               \/ hpc = "while" /\ ~(initialized = 1 /\ stopping = 0)
        /\ (SentinelTakenByTryPop /\ published' # published) => FALSE]_vars
  /\ [](SentinelTakenByTryPop => (hpc \in {"dumps", "while"} /\ stopping = 1))

\* try_pop returned the sentinel, the batch collected was released without
\* a publish, and the handler thread is at the loop condition
C20_Witness ==
  /\ SentinelTakenByTryPop /\ hpc = "while" /\ output = <<>>
  /\ published = <<>> /\ pushed[1] + pushed[2] >= 1

\* C21: every event dequeued for a batch that json_dumps serializes (the stop
\* flag not set at line 601) is in that one message, the message handed to
\* amqp_basic_publish holds the very events dequeued for it, and no event is
\* serialized twice
C21_DequeuedIsSerialized ==
  /\ [][(hpc = "dumps" /\ hpc' = "lock") =>
          serialized' = serialized \o Untagged(taken)]_vars
  /\ [][published' # published =>
          published'[Len(published')].body = Untagged(taken)]_vars
  /\ [](\A i, j \in 1..Len(serialized) : i < j => serialized[i] # serialized[j])

\* C22: no connection is destroyed twice: whenever destroy() (line 450) or
\* the heartbeat thread (line 661) is about to call amqp_destroy_connection
\* on rmq_conn, that connection has not been destroyed before
C22_DestroyedAtMostOnce ==
  /\ (mpc = "destroy_conn" /\ rmq_conn # 0) => ~conns[rmq_conn].destroyed
  /\ (bpc = "destroy" /\ rmq_conn # 0) => ~conns[rmq_conn].destroyed

\* C23: a producer that has passed the flag test of line 496 pushes onto a
\* queue that is alive, and once destroy() has completed with no
\* incoming_event() call in flight the plugin holds no reference on any event
C23_PushOnLiveQueue ==
  /\ \A p \in Producers : ppc[p] = "push" => events_ref = "live"
  /\ (mpc = "destroyed" /\ \A p \in Producers : ppc[p] = "idle")
       => \A id \in EventIds : refs[id] = 0

====
